---- MODULE Spec2Model ----
(***************************************************************************)
(* A model of lab_1-2/ctcp.c: the sending side of one cTCP connection.     *)
(*                                                                         *)
(* Threads: the library's main loop, which calls ctcp_read, ctcp_receive   *)
(* and ctcp_timer one after the other, and the output threads that         *)
(* ctcp_read creates with pthread_create to run                            *)
(* send_outbound_tail_segments.  Every pc value is named after the source  *)
(* line the thread is about to execute.                                    *)
(*                                                                         *)
(* Multi-byte header fields are stored the way the code stores them, in    *)
(* network byte order (htonl/htons on a little-endian host swap the        *)
(* bytes).  Linked lists are sequences, element 1 is the head and element  *)
(* Len is the tail.                                                        *)
(***************************************************************************)
EXTENDS Integers, Sequences, FiniteSets, TLC

(***************************************************************************)
(* Bounds of the model.                                                    *)
(***************************************************************************)
\* Largest payload conn_input returns in one call (ctcp_sys.h sets 1440; the
\* model scales the byte counts down).
MAX_SEG_DATA_SIZE == 2
\* Bytes the application writes over the life of the connection.
MaxInput == 6
\* pthread_create fails once this many output threads exist.
MaxThreads == 2
\* ctcp_read calls that see end-of-input and are followed to the end.
MaxFins == 2
\* The same two, when two threads call ctcp_read.
MaxInputConc == 2
MaxFinsConc == 1
\* Connection states that exist at a time.
MaxConns == 4
\* Retransmissions of a segment after which the connection is given up.
MaxRetransmissions == 2
\* Highest acknowledgment number the peer sends.
MaxRxAck == 2
\* Bytes of input and ends of input while the peer and the clock are followed.
MaxInputEnv == 2
MaxFinsEnv == 1
\* The same two, while the connection is destroyed and created again.
MaxInputReuse == 1
MaxFinsReuse == 1

(***************************************************************************)
(* Program constants.                                                      *)
(***************************************************************************)
INITIAL_SEQ_NO == 1
\* sizeof(ctcp_segment_t): seqno 4, ackno 4, len 2, flags 4, window 2, cksum 2.
HeaderSize == 18
\* Flag bits of ctcp_segment_t.flags.
ACK == 1
FIN == 4

Readers == {1, 2}
Tids == 1 .. MaxThreads

\* Connection states.  State 1 is the connection whose threads the model
\* follows; NULL is the null pointer.
Conns == 1 .. MaxConns
NULL == 0

\* A ctcp_state** value: the address of state_list or of some state's next.
StateListLink == <<"state_list", NULL>>
NextLink(c) == <<"next", c>>
\* The prev field of memory that holds no state.
NoLink == <<"null", NULL>>

\* No segment received yet, no counters (the state is not allocated).
NoRx == <<>>
NoCounters == <<>>

\* Holders of a pthread mutex.
Free == <<"free", 0>>
ReaderThread(r) == <<"reader", r>>
OutputThread(t) == <<"output", t>>

(***************************************************************************)
(* Byte order.                                                             *)
(***************************************************************************)
htonl(x) ==
    (x % 256) * 16777216 + ((x \div 256) % 256) * 65536
        + ((x \div 65536) % 256) * 256 + ((x \div 16777216) % 256)

ntohl(x) == htonl(x)

htons(x) == (x % 256) * 256 + ((x \div 256) % 256)

ntohs(x) == htons(x)

RECURSIVE BitOr(_, _)
BitOr(a, b) ==
    IF a = 0 THEN b
    ELSE IF b = 0 THEN a
    ELSE (IF a % 2 = 1 \/ b % 2 = 1 THEN 1 ELSE 0) + 2 * BitOr(a \div 2, b \div 2)

\* flag is a single bit (a power of two), flags is in network byte order.
HasFlag(seg, flag) == (ntohl(seg.flags) \div flag) % 2 = 1

PayloadLen(seg) == ntohs(seg.len) - HeaderSize

RECURSIVE SumSeq(_)
SumSeq(s) == IF s = <<>> THEN 0 ELSE Head(s) + SumSeq(Tail(s))

\* The Internet checksum of ctcp_utils.h, reduced to a 16-bit sum of the
\* segment's fields and payload bytes with the cksum field taken as zero.
cksum(seg, len) ==
    ((seg.seqno % 65536) + (seg.ackno % 65536) + seg.len + (seg.flags % 65536)
        + seg.window + SumSeq(seg.data) + len) % 65536

(***************************************************************************)
(* Linked list operations of ctcp_linked_list.h used by the code.          *)
(***************************************************************************)
ll_create == <<>>

\* A variant that links the object in at the tail, as ll_add does.
ll_add_back(list, object) == list \o <<object>>

ll_add_front(list, object) == <<object>> \o list

ll_tail(list) == list[Len(list)]

ll_remove_tail(list) == SubSeq(list, 1, Len(list) - 1)

VARIABLES
    env,                        \* the run's extent: input bytes, calls at EOF
    config,                     \* state->config: send_window, recv_window
    next_seq_no,
    last_ack_sent,
    last_ack_received,
    bytes_inflight,
    is_output_thread_running,
    outbound_list_lock,         \* holder of the mutex
    inflight_list_lock,
    outbound_segments_list,
    inflight_segments_list,
    rpc,                        \* ctcp_read: position of each calling thread
    need_to_fork_thread,        \* ctcp_read: local
    timestamped_segment,        \* ctcp_read: local
    spc,                        \* send_outbound_tail_segments: position
    tail_timestamped_segment,   \* send_outbound_tail_segments: local
    input_read,                 \* bytes conn_input has handed out so far
    input_eof,                  \* conn_input has reported end of input
    created,                    \* history: segments built, in order
    dequeued,                   \* history: segments removed from outbound
    transmitted,                \* history: segments handed to conn_send
    crashed,                    \* the process died on an invalid access
    rx_last,                    \* history: last segment given to ctcp_receive
    rx_ack_max,                 \* history: highest ackno of a valid pure ACK
    timeouts,                   \* history: timer sweeps past the timeout
    state_list,                 \* head of the list of connection states
    next,                       \* ctcp_state.next of each state
    prev,                       \* ctcp_state.prev of each state: a link
    allocated,                  \* states calloc'ed and not freed
    counters,                   \* the counters of the states other than 1
    stale_tasks,                \* output threads whose state was freed
    destroyed_at                \* history: where the last ctcp_destroy cut

vars ==
    <<env, config, next_seq_no, last_ack_sent, last_ack_received, bytes_inflight,
      is_output_thread_running, outbound_list_lock, inflight_list_lock,
      outbound_segments_list, inflight_segments_list, rpc, need_to_fork_thread,
      timestamped_segment, spc, tail_timestamped_segment, input_read,
      input_eof, created, dequeued, transmitted, crashed, rx_last,
      rx_ack_max, timeouts, state_list, next, prev, allocated, counters,
      stale_tasks, destroyed_at>>

\* What ctcp_receive and ctcp_timer are called with, so far.
logVars == <<rx_last, rx_ack_max, timeouts>>
\* The list of connection states.
regVars ==
    <<state_list, next, prev, allocated, counters, stale_tasks, destroyed_at>>
connVars == <<env, config, last_ack_sent, last_ack_received, logVars, regVars>>
histVars == <<created, dequeued, transmitted>>

NoSegment == [time_when_sent |-> 0, segment |-> <<>>]

\* Configurations the library passes to ctcp_init: windows are multiples of
\* MAX_SEG_DATA_SIZE.
Configs ==
    [send_window : {MAX_SEG_DATA_SIZE, 2 * MAX_SEG_DATA_SIZE},
     recv_window : {MAX_SEG_DATA_SIZE}]

(***************************************************************************)
(* ctcp_init, lines 88-141: the state of a freshly created connection.     *)
(***************************************************************************)
ctcp_init(cfg, readers, extent) ==
    /\ env = extent
    /\ config = cfg
    /\ next_seq_no = INITIAL_SEQ_NO
    /\ last_ack_sent = 0
    /\ last_ack_received = 0
    /\ bytes_inflight = 0
    /\ is_output_thread_running = 0
    /\ outbound_list_lock = Free
    /\ inflight_list_lock = Free
    /\ outbound_segments_list = ll_create
    /\ inflight_segments_list = ll_create
    /\ rpc = [r \in Readers |-> IF r \in readers THEN "idle" ELSE "off"]
    /\ need_to_fork_thread = [r \in Readers |-> 1]
    /\ timestamped_segment = [r \in Readers |-> NoSegment]
    /\ spc = [t \in Tids |-> "none"]
    /\ tail_timestamped_segment = [t \in Tids |-> NoSegment]
    /\ input_read = 0
    /\ input_eof = FALSE
    /\ created = <<>>
    /\ dequeued = <<>>
    /\ transmitted = <<>>
    /\ crashed = FALSE
    /\ rx_last = NoRx
    /\ rx_ack_max = 0
    /\ timeouts = 0
    /\ state_list = 1
    /\ next = [c \in Conns |-> NULL]
    /\ prev = [c \in Conns |-> IF c = 1 THEN StateListLink ELSE NoLink]
    /\ allocated = {1}
    /\ counters = [c \in Conns \ {1} |-> NoCounters]
    /\ stale_tasks = {}
    /\ destroyed_at = "none"

\* The library's main loop is the only caller of ctcp_read.
Init ==
    \E cfg \in Configs :
        ctcp_init(cfg, {1}, [input |-> MaxInput, eofs |-> MaxFins])

\* Two threads call ctcp_read on the same connection.
InitConc ==
    \E cfg \in Configs :
        ctcp_init(cfg, Readers, [input |-> MaxInputConc, eofs |-> MaxFinsConc])

(***************************************************************************)
(* Segment construction, lines 160-229.                                    *)
(***************************************************************************)
array_copy(from, n) == SubSeq(from, 1, n)

\* A variant that advances next_seq_no before it stamps the segment.
create_data_segment_seqno_late(nsn, las, recv_window, bytes_read, buffer) ==
    LET seg == [seqno  |-> htonl(nsn + bytes_read),
                ackno  |-> htonl(las),
                len    |-> htons(HeaderSize + bytes_read),
                flags  |-> BitOr(0, htonl(ACK)),
                window |-> htons(recv_window),
                cksum  |-> 0,
                data   |-> array_copy(buffer, bytes_read)]
    IN  [segment     |-> [seg EXCEPT !.cksum = cksum(seg, ntohs(seg.len))],
         next_seq_no |-> nsn + bytes_read]

\* The segment built and the value next_seq_no has afterwards.
create_new_data_segment(nsn, las, recv_window, bytes_read, buffer) ==
    LET seg == [seqno  |-> htonl(nsn),
                ackno  |-> htonl(las),
                len    |-> htons(HeaderSize + bytes_read),
                flags  |-> BitOr(0, htonl(ACK)),
                window |-> htons(recv_window),
                cksum  |-> 0,
                data   |-> array_copy(buffer, bytes_read)]
    IN  [segment     |-> [seg EXCEPT !.cksum = cksum(seg, ntohs(seg.len))],
         next_seq_no |-> nsn + bytes_read]

\* A variant that reserves a sequence number for the FIN.
create_fin_segment_advancing(nsn, las, recv_window) ==
    LET seg == [seqno  |-> htonl(nsn),
                ackno  |-> htonl(las),
                len    |-> htons(HeaderSize),
                flags  |-> BitOr(BitOr(0, htonl(ACK)), htonl(FIN)),
                window |-> htons(recv_window),
                cksum  |-> 0,
                data   |-> <<>>]
    IN  [segment     |-> [seg EXCEPT !.cksum = cksum(seg, ntohs(seg.len))],
         next_seq_no |-> nsn + 1]

\* Line 207-209: next_seq_no is read and left as it is.
create_new_fin_segment(nsn, las, recv_window) ==
    LET seg == [seqno  |-> htonl(nsn),
                ackno  |-> htonl(las),
                len    |-> htons(HeaderSize),
                flags  |-> BitOr(BitOr(0, htonl(ACK)), htonl(FIN)),
                window |-> htons(recv_window),
                cksum  |-> 0,
                data   |-> <<>>]
    IN  [segment     |-> [seg EXCEPT !.cksum = cksum(seg, ntohs(seg.len))],
         next_seq_no |-> nsn]

IsFin(seg) == HasFlag(seg, FIN)

SeqNo(seg) == ntohl(seg.seqno)

\* A segment is acknowledged once last_ack_received has passed its last byte.
Acked(seg) == SeqNo(seg) + PayloadLen(seg) <= last_ack_received

NumFins(segs) == Cardinality({i \in 1 .. Len(segs) : IsFin(segs[i])})

(***************************************************************************)
(* ctcp_read, lines 284-343.                                               *)
(***************************************************************************)
\* Line 284-293: the call, on a connection the library still has;
\* need_to_fork_thread starts at 1.
ReadCall(r) ==
    /\ ~crashed
    /\ 1 \in allocated
    /\ rpc[r] = "idle"
    /\ NumFins(created) < env.eofs
    /\ rpc' = [rpc EXCEPT ![r] = "r295"]
    /\ need_to_fork_thread' = [need_to_fork_thread EXCEPT ![r] = 1]
    /\ UNCHANGED <<connVars, histVars, next_seq_no, bytes_inflight,
                   is_output_thread_running, outbound_list_lock,
                   inflight_list_lock, outbound_segments_list,
                   inflight_segments_list, timestamped_segment, spc,
                   tail_timestamped_segment, input_read, input_eof, crashed>>

\* Line 295-300: conn_input hands out bytes_read > 0 bytes of the stream (byte
\* i of the stream has the value i) and a data segment is built from them.
ReadData(r) ==
    /\ ~crashed
    /\ rpc[r] = "r295"
    /\ ~input_eof
    /\ \E bytes_read \in 1 .. MAX_SEG_DATA_SIZE :
        /\ input_read + bytes_read <= env.input
        /\ LET buffer == [i \in 1 .. MAX_SEG_DATA_SIZE |-> input_read + i]
               new == create_new_data_segment(next_seq_no, last_ack_sent,
                          config.recv_window, bytes_read, buffer)
           IN  /\ next_seq_no' = new.next_seq_no
               /\ timestamped_segment' =
                      [timestamped_segment EXCEPT
                          ![r] = [time_when_sent |-> 0, segment |-> new.segment]]
               /\ created' = Append(created, new.segment)
               /\ input_read' = input_read + bytes_read
    /\ rpc' = [rpc EXCEPT ![r] = "r304"]
    /\ UNCHANGED <<connVars, dequeued, transmitted, bytes_inflight,
                   is_output_thread_running, outbound_list_lock,
                   inflight_list_lock, outbound_segments_list,
                   inflight_segments_list, need_to_fork_thread, spc,
                   tail_timestamped_segment, input_eof, crashed>>

\* Line 295, 336: conn_input returns 0, nothing to read now; ctcp_read returns.
ReadNothing(r) ==
    /\ ~crashed
    /\ rpc[r] = "r295"
    /\ ~input_eof
    /\ rpc' = [rpc EXCEPT ![r] = "idle"]
    /\ need_to_fork_thread' = [need_to_fork_thread EXCEPT ![r] = 1]
    /\ timestamped_segment' = [timestamped_segment EXCEPT ![r] = NoSegment]
    /\ UNCHANGED <<connVars, histVars, next_seq_no, bytes_inflight,
                   is_output_thread_running, outbound_list_lock,
                   inflight_list_lock, outbound_segments_list,
                   inflight_segments_list, spc, tail_timestamped_segment,
                   input_read, input_eof, crashed>>

\* Line 295, 336: conn_input returns -1 (end of input or error), now and in
\* every later call.
ReadEof(r) ==
    /\ ~crashed
    /\ rpc[r] = "r295"
    /\ input_eof' = TRUE
    /\ rpc' = [rpc EXCEPT ![r] = "r337"]
    /\ UNCHANGED <<connVars, histVars, next_seq_no, bytes_inflight,
                   is_output_thread_running, outbound_list_lock,
                   inflight_list_lock, outbound_segments_list,
                   inflight_segments_list, need_to_fork_thread,
                   timestamped_segment, spc, tail_timestamped_segment,
                   input_read, crashed>>

\* Line 304 and 339: pthread_mutex_lock(&state->outbound_list_lock).
ReadLock(r) ==
    /\ ~crashed
    /\ rpc[r] \in {"r304", "r339"}
    /\ outbound_list_lock = Free
    /\ outbound_list_lock' = ReaderThread(r)
    /\ rpc' = [rpc EXCEPT ![r] = IF rpc[r] = "r304" THEN "r305" ELSE "r340"]
    /\ UNCHANGED <<connVars, histVars, next_seq_no, bytes_inflight,
                   is_output_thread_running, inflight_list_lock,
                   outbound_segments_list, inflight_segments_list,
                   need_to_fork_thread, timestamped_segment, spc,
                   tail_timestamped_segment, input_read, input_eof, crashed>>

\* Line 305 and 340: ll_add_front(state->outbound_segments_list, ...).
ReadAddFront(r) ==
    /\ ~crashed
    /\ rpc[r] \in {"r305", "r340"}
    /\ outbound_segments_list' =
           ll_add_front(outbound_segments_list, timestamped_segment[r])
    /\ rpc' = [rpc EXCEPT ![r] = IF rpc[r] = "r305" THEN "r306" ELSE "r341"]
    /\ UNCHANGED <<connVars, histVars, next_seq_no, bytes_inflight,
                   is_output_thread_running, outbound_list_lock,
                   inflight_list_lock, inflight_segments_list,
                   need_to_fork_thread, timestamped_segment, spc,
                   tail_timestamped_segment, input_read, input_eof, crashed>>

\* Line 306: unlock and go on to the fork test.
\* Line 341: unlock and return from ctcp_read.
ReadUnlock(r) ==
    /\ ~crashed
    /\ rpc[r] \in {"r306", "r341"}
    /\ outbound_list_lock' = Free
    /\ IF rpc[r] = "r306"
       THEN /\ rpc' = [rpc EXCEPT ![r] = "r308"]
            /\ UNCHANGED <<need_to_fork_thread, timestamped_segment>>
       ELSE /\ rpc' = [rpc EXCEPT ![r] = "idle"]
            /\ need_to_fork_thread' = [need_to_fork_thread EXCEPT ![r] = 1]
            /\ timestamped_segment' =
                   [timestamped_segment EXCEPT ![r] = NoSegment]
    /\ UNCHANGED <<connVars, histVars, next_seq_no, bytes_inflight,
                   is_output_thread_running, inflight_list_lock,
                   outbound_segments_list, inflight_segments_list, spc,
                   tail_timestamped_segment, input_read, input_eof, crashed>>

\* A variant that forgets line 323.
thread_status_not_set(running, err) == running

\* Line 322-324: the flag after pthread_create returned err.
thread_status_update(running, err) == IF err = 0 THEN 1 ELSE running

\* Line 308-332.  The section between lock and unlock of output_thread_mutex
\* is one step: nothing else reads or writes what it touches.
ReadFork(r) ==
    /\ ~crashed
    /\ rpc[r] = "r308"
    /\ rpc' = [rpc EXCEPT ![r] = "r295"]
    /\ \/ /\ need_to_fork_thread[r] = 0
          /\ UNCHANGED <<need_to_fork_thread, is_output_thread_running, spc>>
       \/ /\ need_to_fork_thread[r] # 0
          /\ is_output_thread_running # 0
          /\ need_to_fork_thread' = [need_to_fork_thread EXCEPT ![r] = 0]
          /\ UNCHANGED <<is_output_thread_running, spc>>
       \/ \* pthread_create returns 0: a new thread starts the function
          /\ need_to_fork_thread[r] # 0
          /\ is_output_thread_running = 0
          /\ \E t \in Tids :
                /\ spc[t] = "none"
                /\ \A u \in Tids : u < t => spc[u] # "none"
                /\ spc' = [spc EXCEPT ![t] = "s239"]
          /\ need_to_fork_thread' = [need_to_fork_thread EXCEPT ![r] = 0]
          /\ is_output_thread_running' =
                 thread_status_update(is_output_thread_running, 0)
       \/ \* pthread_create returns an error number
          /\ need_to_fork_thread[r] # 0
          /\ is_output_thread_running = 0
          /\ need_to_fork_thread' = [need_to_fork_thread EXCEPT ![r] = 1]
          /\ is_output_thread_running' =
                 thread_status_update(is_output_thread_running, 1)
          /\ UNCHANGED spc
    /\ UNCHANGED <<connVars, histVars, next_seq_no, bytes_inflight,
                   outbound_list_lock, inflight_list_lock,
                   outbound_segments_list, inflight_segments_list,
                   timestamped_segment, tail_timestamped_segment, input_read,
                   input_eof, crashed>>

\* Line 337-338: the FIN segment is built.
ReadFin(r) ==
    /\ ~crashed
    /\ rpc[r] = "r337"
    /\ LET new == create_new_fin_segment(next_seq_no, last_ack_sent,
                      config.recv_window)
       IN  /\ next_seq_no' = new.next_seq_no
           /\ timestamped_segment' =
                  [timestamped_segment EXCEPT
                      ![r] = [time_when_sent |-> 0, segment |-> new.segment]]
           /\ created' = Append(created, new.segment)
    /\ rpc' = [rpc EXCEPT ![r] = "r339"]
    /\ UNCHANGED <<connVars, dequeued, transmitted, bytes_inflight,
                   is_output_thread_running, outbound_list_lock,
                   inflight_list_lock, outbound_segments_list,
                   inflight_segments_list, need_to_fork_thread, spc,
                   tail_timestamped_segment, input_read, input_eof, crashed>>

(***************************************************************************)
(* send_outbound_tail_segments, lines 234-269, run by an output thread.    *)
(***************************************************************************)
\* Line 257-258: what the section under inflight_list_lock leaves in the
\* inflight list and in bytes_inflight after tts was taken from outbound.
\* The section is empty.
inflight_list_update(list, tts) == list

\* A variant that counts the payload and still inserts nothing.
bytes_inflight_counts_payload(bytes, tts) == bytes + PayloadLen(tts.segment)

\* A variant that counts the whole segment, header included.
bytes_inflight_counts_len(bytes, tts) == bytes + ntohs(tts.segment.len)

bytes_inflight_update(bytes, tts) == bytes

\* Line 236-239: the window test.
SendWindowTest(t) ==
    /\ ~crashed
    /\ spc[t] = "s239"
    /\ spc' = [spc EXCEPT ![t] =
                  IF config.send_window > bytes_inflight THEN "s243" ELSE "s264"]
    /\ UNCHANGED <<connVars, histVars, next_seq_no, bytes_inflight,
                   is_output_thread_running, outbound_list_lock,
                   inflight_list_lock, outbound_segments_list,
                   inflight_segments_list, rpc, need_to_fork_thread,
                   timestamped_segment, tail_timestamped_segment, input_read,
                   input_eof, crashed>>

\* Line 243.
SendLockOutbound(t) ==
    /\ ~crashed
    /\ spc[t] = "s243"
    /\ outbound_list_lock = Free
    /\ outbound_list_lock' = OutputThread(t)
    /\ spc' = [spc EXCEPT ![t] = "s245"]
    /\ UNCHANGED <<connVars, histVars, next_seq_no, bytes_inflight,
                   is_output_thread_running, inflight_list_lock,
                   outbound_segments_list, inflight_segments_list, rpc,
                   need_to_fork_thread, timestamped_segment,
                   tail_timestamped_segment, input_read, input_eof, crashed>>

\* Line 245-252.  The tail of a non-empty outbound list is taken off; on an
\* empty list thread_exit(0) ends the thread where it stands, before the
\* unlock of line 254.
SendTakeTail(t) ==
    /\ ~crashed
    /\ spc[t] = "s245"
    /\ IF outbound_segments_list # <<>>
       THEN /\ tail_timestamped_segment' =
                   [tail_timestamped_segment EXCEPT
                       ![t] = ll_tail(outbound_segments_list)]
            /\ outbound_segments_list' =
                   ll_remove_tail(outbound_segments_list)
            /\ dequeued' =
                   Append(dequeued, ll_tail(outbound_segments_list).segment)
            /\ spc' = [spc EXCEPT ![t] = "s254"]
       ELSE /\ spc' = [spc EXCEPT ![t] = "exited"]
            /\ UNCHANGED <<tail_timestamped_segment, outbound_segments_list,
                           dequeued>>
    /\ UNCHANGED <<connVars, created, transmitted, next_seq_no,
                   bytes_inflight, is_output_thread_running,
                   outbound_list_lock, inflight_list_lock,
                   inflight_segments_list, rpc, need_to_fork_thread,
                   timestamped_segment, input_read, input_eof, crashed>>

\* Line 254.
SendUnlockOutbound(t) ==
    /\ ~crashed
    /\ spc[t] = "s254"
    /\ outbound_list_lock' = Free
    /\ spc' = [spc EXCEPT ![t] = "s257"]
    /\ UNCHANGED <<connVars, histVars, next_seq_no, bytes_inflight,
                   is_output_thread_running, inflight_list_lock,
                   outbound_segments_list, inflight_segments_list, rpc,
                   need_to_fork_thread, timestamped_segment,
                   tail_timestamped_segment, input_read, input_eof, crashed>>

\* Line 257.
SendLockInflight(t) ==
    /\ ~crashed
    /\ spc[t] = "s257"
    /\ inflight_list_lock = Free
    /\ inflight_list_lock' = OutputThread(t)
    /\ spc' = [spc EXCEPT ![t] = "s258"]
    /\ UNCHANGED <<connVars, histVars, next_seq_no, bytes_inflight,
                   is_output_thread_running, outbound_list_lock,
                   outbound_segments_list, inflight_segments_list, rpc,
                   need_to_fork_thread, timestamped_segment,
                   tail_timestamped_segment, input_read, input_eof, crashed>>

\* Line 257-258: the section under inflight_list_lock, and the unlock.
SendUnlockInflight(t) ==
    /\ ~crashed
    /\ spc[t] = "s258"
    /\ inflight_segments_list' =
           inflight_list_update(inflight_segments_list,
                                tail_timestamped_segment[t])
    /\ bytes_inflight' =
           bytes_inflight_update(bytes_inflight, tail_timestamped_segment[t])
    /\ inflight_list_lock' = Free
    /\ spc' = [spc EXCEPT ![t] = "s264"]
    /\ UNCHANGED <<connVars, histVars, next_seq_no,
                   is_output_thread_running, outbound_list_lock,
                   outbound_segments_list, rpc, need_to_fork_thread,
                   timestamped_segment, tail_timestamped_segment, input_read,
                   input_eof, crashed>>

\* Line 264-265: the comparison, on a non-empty outbound list.  The stored
\* seqno is compared as it is, in network byte order.
ack_covers_tail(lar, list) == lar > ll_tail(list).segment.seqno

\* Line 264-269.  The list is read without outbound_list_lock.  On an empty
\* list tail is NULL and the read is invalid: the process dies, or the read
\* yields some value.  Line 267 names conn_send and calls nothing, so both
\* outcomes of the comparison fall through to the return.
SendCompare(t) ==
    /\ ~crashed
    /\ spc[t] = "s264"
    /\ \/ /\ outbound_segments_list # <<>>
          /\ ack_covers_tail(last_ack_received, outbound_segments_list)
                 \in BOOLEAN
          /\ spc' = [spc EXCEPT ![t] = "returned"]
          /\ UNCHANGED crashed
       \/ /\ outbound_segments_list = <<>>
          /\ spc' = [spc EXCEPT ![t] = "returned"]
          /\ UNCHANGED crashed
       \/ /\ outbound_segments_list = <<>>
          /\ crashed' = TRUE
          /\ UNCHANGED spc
    /\ UNCHANGED <<connVars, histVars, next_seq_no, bytes_inflight,
                   is_output_thread_running, outbound_list_lock,
                   inflight_list_lock, outbound_segments_list,
                   inflight_segments_list, rpc, need_to_fork_thread,
                   timestamped_segment, tail_timestamped_segment, input_read,
                   input_eof>>

(***************************************************************************)
(* ctcp_receive, ctcp_output and ctcp_timer, lines 347-357: the library's  *)
(* main loop calls them between two calls of ctcp_read.  Their bodies are  *)
(* empty.                                                                  *)
(***************************************************************************)
\* Output threads that have neither returned nor exited.
LiveTasks == {t \in Tids : spc[t] \notin {"none", "returned", "exited"}}

MainLoopFree == \A r \in Readers : rpc[r] \in {"idle", "off"}

\* Acknowledgment numbers of the segments the peer sends.
AckNos == 0 .. INITIAL_SEQ_NO + MaxInput + 1

ctcp_receive ==
    /\ ~crashed
    /\ MainLoopFree
    /\ \E ackno \in AckNos :
          LET segment == [seqno |-> htonl(1), ackno |-> htonl(ackno),
                          len |-> htons(HeaderSize),
                          flags |-> BitOr(0, htonl(ACK))]
          IN  segment.ackno \in Nat
    /\ UNCHANGED vars

ctcp_timer ==
    /\ ~crashed
    /\ MainLoopFree
    /\ UNCHANGED vars

ReadStep(r) ==
    \/ ReadCall(r)
    \/ ReadData(r)
    \/ ReadNothing(r)
    \/ ReadEof(r)
    \/ ReadLock(r)
    \/ ReadAddFront(r)
    \/ ReadUnlock(r)
    \/ ReadFork(r)
    \/ ReadFin(r)

SendStep(t) ==
    \/ SendWindowTest(t)
    \/ SendLockOutbound(t)
    \/ SendTakeTail(t)
    \/ SendUnlockOutbound(t)
    \/ SendLockInflight(t)
    \/ SendUnlockInflight(t)
    \/ SendCompare(t)

Next ==
    \/ \E r \in Readers : ReadStep(r)
    \/ \E t \in Tids : SendStep(t)
    \/ ctcp_receive
    \/ ctcp_timer

Spec == Init /\ [][Next]_vars

SpecConc == InitConc /\ [][Next]_vars

(***************************************************************************)
(* The peer and the clock.  ctcp_receive is called with each segment that  *)
(* arrives and ctcp_timer at every tick, lines 347-357; what they were     *)
(* called with is recorded, what they do is their (empty) body.            *)
(***************************************************************************)
\* A segment of the peer: its only sequence number is 1.
PeerSegment(ackno, data) ==
    LET seg == [seqno  |-> htonl(1),
                ackno  |-> htonl(ackno),
                len    |-> htons(HeaderSize + Len(data)),
                flags  |-> BitOr(0, htonl(ACK)),
                window |-> htons(MAX_SEG_DATA_SIZE),
                cksum  |-> 0,
                data   |-> data]
    IN  [seg EXCEPT !.cksum = cksum(seg, ntohs(seg.len))]

\* The segment after a bit flipped on the way.
Corrupted(seg) == [seg EXCEPT !.cksum = (seg.cksum + 1) % 65536]

IsValid(seg) == seg.cksum = cksum(seg, ntohs(seg.len))

IsPureAck(seg) == HasFlag(seg, ACK) /\ ~HasFlag(seg, FIN) /\ PayloadLen(seg) = 0

\* What arrives: acknowledgments, one of them damaged, and a data segment.
RxSegments ==
    {PeerSegment(ackno, <<>>) : ackno \in 1 .. MaxRxAck}
        \cup {Corrupted(PeerSegment(MaxRxAck, <<>>)), PeerSegment(1, <<1>>)}

\* A variant of ctcp_receive that stores the acknowledgment number it is given.
last_ack_received_takes_ackno(lar, segment) == ntohl(segment.ackno)

\* Line 347-349: the body of ctcp_receive assigns nothing.
last_ack_received_update(lar, segment) == lar

\* Line 347-349, with the segment recorded.
ReceiveCall ==
    /\ ~crashed
    /\ MainLoopFree
    /\ \E segment \in RxSegments :
        /\ rx_last' = segment
        /\ rx_ack_max' =
              IF IsValid(segment) /\ IsPureAck(segment)
                     /\ ntohl(segment.ackno) > rx_ack_max
              THEN ntohl(segment.ackno) ELSE rx_ack_max
        /\ last_ack_received' =
              last_ack_received_update(last_ack_received, segment)
    /\ UNCHANGED <<env, config, last_ack_sent, timeouts, regVars, histVars,
                   next_seq_no, bytes_inflight, is_output_thread_running,
                   outbound_list_lock, inflight_list_lock,
                   outbound_segments_list, inflight_segments_list, rpc,
                   need_to_fork_thread, timestamped_segment, spc,
                   tail_timestamped_segment, input_read, input_eof, crashed>>

\* The oldest segment that left the outbound queue is still unacknowledged.
OldestUnacked == dequeued # <<>> /\ ~Acked(dequeued[1])

\* Line 355-357, with the ticks counted at which the retransmission timeout
\* of the oldest unacknowledged segment has run out once more.
TimerCall ==
    /\ ~crashed
    /\ MainLoopFree
    /\ \E expired \in BOOLEAN :
        timeouts' = IF expired /\ OldestUnacked
                          /\ timeouts <= MaxRetransmissions
                    THEN timeouts + 1 ELSE timeouts
    /\ UNCHANGED <<env, config, last_ack_sent, last_ack_received, rx_last,
                   rx_ack_max, regVars, histVars, next_seq_no, bytes_inflight,
                   is_output_thread_running, outbound_list_lock,
                   inflight_list_lock, outbound_segments_list,
                   inflight_segments_list, rpc, need_to_fork_thread,
                   timestamped_segment, spc, tail_timestamped_segment,
                   input_read, input_eof, crashed>>

InitEnv ==
    \E cfg \in Configs :
        ctcp_init(cfg, {1}, [input |-> MaxInputEnv, eofs |-> MaxFinsEnv])

NextEnv ==
    \/ \E r \in Readers : ReadStep(r)
    \/ \E t \in Tids : SendStep(t)
    \/ ReceiveCall
    \/ TimerCall

SpecEnv == InitEnv /\ [][NextEnv]_vars

(***************************************************************************)
(* The list of connection states: ctcp_init, lines 88-141, and             *)
(* ctcp_destroy, lines 144-156, called by the main loop for any connection.*)
(* The process is a server: end_client() returns.                          *)
(***************************************************************************)
\* *link = value, for a link that is state_list or some state's next.
link_store(link, value, sl, nx) ==
    IF link = StateListLink
    THEN [state_list |-> value, next |-> nx]
    ELSE [state_list |-> sl, next |-> [nx EXCEPT ![link[2]] = value]]

\* *link
link_load(link, sl, nx) == IF link = StateListLink THEN sl ELSE nx[link[2]]

\* Line 97-101: the new state becomes the head.
init_links(state, sl, nx, pv) ==
    [state_list |-> state,
     next       |-> [nx EXCEPT ![state] = sl],
     prev       |-> IF sl # NULL
                    THEN [pv EXCEPT ![state] = StateListLink,
                                    ![sl] = NextLink(state)]
                    ELSE [pv EXCEPT ![state] = StateListLink]]

\* A variant of ctcp_destroy that leaves the successor's prev as it is.
destroy_links_prev_stale(state, sl, nx, pv) ==
    LET stored == link_store(pv[state], nx[state], sl, nx)
    IN  [state_list |-> stored.state_list,
         next       |-> [stored.next EXCEPT ![state] = NULL],
         prev       |-> [pv EXCEPT ![state] = NoLink]]

\* Line 146-149: the state is cut out of the list; line 154 frees it.
destroy_links(state, sl, nx, pv) ==
    LET pv1    == IF nx[state] # NULL
                  THEN [pv EXCEPT ![nx[state]] = pv[state]]
                  ELSE pv
        stored == link_store(pv[state], nx[state], sl, nx)
    IN  [state_list |-> stored.state_list,
         next       |-> [stored.next EXCEPT ![state] = NULL],
         prev       |-> [pv1 EXCEPT ![state] = NoLink]]

\* Line 105-108.
FreshCounters ==
    [next_seq_no |-> INITIAL_SEQ_NO, last_ack_sent |-> 0,
     last_ack_received |-> 0, bytes_inflight |-> 0]

\* Where in the list a state stands.
PositionOf(state) ==
    IF state_list = state THEN "head"
    ELSE IF next[state] = NULL THEN "last" ELSE "middle"

\* Line 88-141.  conn is NULL or a connection that has no state; calloc
\* returns memory no state occupies.  When that is the memory of state 1,
\* lines 104-137 overwrite what a destroyed state 1 left there, under the
\* eyes of the output threads that still use it.  The locals of calls and
\* threads that have ended are forgotten.
InitCall(conn) ==
    /\ ~crashed
    /\ MainLoopFree
    /\ conn \notin allocated
    /\  IF conn = NULL
        THEN UNCHANGED vars
        ELSE
          LET links == init_links(conn, state_list, next, prev)
          IN
          /\ state_list' = links.state_list
          /\ next' = links.next
          /\ prev' = links.prev
          /\ allocated' = allocated \cup {conn}
          /\ UNCHANGED <<env, crashed, destroyed_at>>
          /\ IF conn # 1
             THEN /\ counters' = [counters EXCEPT ![conn] = FreshCounters]
                  /\ UNCHANGED <<config, last_ack_sent, last_ack_received,
                                 logVars, stale_tasks, histVars, next_seq_no,
                                 bytes_inflight, is_output_thread_running,
                                 outbound_list_lock, inflight_list_lock,
                                 outbound_segments_list,
                                 inflight_segments_list, rpc,
                                 need_to_fork_thread, timestamped_segment,
                                 spc, tail_timestamped_segment, input_read,
                                 input_eof>>
             ELSE /\ \E cfg \in Configs : config' = cfg
                  /\ next_seq_no' = FreshCounters.next_seq_no
                  /\ last_ack_sent' = FreshCounters.last_ack_sent
                  /\ last_ack_received' = FreshCounters.last_ack_received
                  /\ bytes_inflight' = FreshCounters.bytes_inflight
                  /\ is_output_thread_running' = 0
                  /\ outbound_list_lock' = Free
                  /\ inflight_list_lock' = Free
                  /\ outbound_segments_list' = ll_create
                  /\ inflight_segments_list' = ll_create
                  /\ spc' = [t \in Tids |->
                               IF t \in LiveTasks THEN spc[t] ELSE "none"]
                  /\ stale_tasks' = stale_tasks \cap LiveTasks
                  /\ input_read' = 0
                  /\ input_eof' = FALSE
                  /\ created' = <<>>
                  /\ dequeued' = <<>>
                  /\ transmitted' = <<>>
                  /\ need_to_fork_thread' = [r \in Readers |-> 1]
                  /\ timestamped_segment' = [r \in Readers |-> NoSegment]
                  /\ tail_timestamped_segment' =
                         [t \in Tids |->
                             IF t \in LiveTasks
                             THEN tail_timestamped_segment[t] ELSE NoSegment]
                  /\ UNCHANGED <<logVars, counters, rpc>>

\* Line 144-156.  The output threads of the state are left running.
DestroyCall(state) ==
    /\ ~crashed
    /\ MainLoopFree
    /\ state \in allocated
    /\  LET links == destroy_links(state, state_list, next, prev)
        IN
        /\ state_list' = links.state_list
        /\ next' = links.next
        /\ prev' = links.prev
        /\ allocated' = allocated \ {state}
        /\ destroyed_at' = PositionOf(state)
        /\ IF state = 1
           THEN /\ stale_tasks' = stale_tasks \cup LiveTasks
                /\ UNCHANGED counters
           ELSE /\ counters' = [counters EXCEPT ![state] = NoCounters]
                /\ UNCHANGED stale_tasks
    /\ UNCHANGED <<env, config, last_ack_sent, last_ack_received, logVars,
                   histVars, next_seq_no, bytes_inflight,
                   is_output_thread_running, outbound_list_lock,
                   inflight_list_lock, outbound_segments_list,
                   inflight_segments_list, rpc, need_to_fork_thread,
                   timestamped_segment, spc, tail_timestamped_segment,
                   input_read, input_eof, crashed>>

\* An output thread touches the memory of its freed state and the access
\* faults; when it does not, the thread goes on as SendStep says, on what the
\* memory holds by then.
SendFault(t) ==
    /\ ~crashed
    /\ t \in stale_tasks \cap LiveTasks
    /\ 1 \notin allocated
    /\ crashed' = TRUE
    /\ UNCHANGED <<connVars, histVars, next_seq_no, bytes_inflight,
                   is_output_thread_running, outbound_list_lock,
                   inflight_list_lock, outbound_segments_list,
                   inflight_segments_list, rpc, need_to_fork_thread,
                   timestamped_segment, spc, tail_timestamped_segment,
                   input_read, input_eof>>

\* Connections come and go; nothing is read or written on them.
InitReg ==
    \E cfg \in Configs :
        ctcp_init(cfg, {1}, [input |-> MaxInputReuse, eofs |-> MaxFinsReuse])

NextReg ==
    \/ \E conn \in {NULL} \cup Conns : InitCall(conn)
    \/ \E state \in Conns : DestroyCall(state)

SpecReg == InitReg /\ [][NextReg]_vars

\* A server with one client at a time: the connection is read from, destroyed
\* and created again, in the memory it had.
NextReuse ==
    \/ \E r \in Readers : ReadStep(r)
    \/ \E t \in Tids : SendStep(t)
    \/ \E t \in Tids : SendFault(t)
    \/ \E conn \in {NULL, 1} : InitCall(conn)
    \/ DestroyCall(1)

SpecReuse == InitReg /\ [][NextReuse]_vars

(***************************************************************************)
(* Properties.                                                             *)
(***************************************************************************)
Segments(list) == [i \in 1 .. Len(list) |-> list[i].segment]

PayloadBytes(segs) == SumSeq([i \in 1 .. Len(segs) |-> PayloadLen(segs[i])])

Count(segs, seg) == Cardinality({i \in 1 .. Len(segs) : segs[i] = seg})

\* The output thread has taken a segment off outbound and is past the section
\* under inflight_list_lock.
PastInflightSection(t) == spc[t] \in {"s264", "returned"} /\ dequeued # <<>>

\* C1: in every reachable state bytes_inflight equals the sum of the payload
\* lengths of the segments in the inflight list.
C1_BytesInflightIsSum ==
    bytes_inflight = PayloadBytes(Segments(inflight_segments_list))

C1_Witness ==
    /\ \E t \in Tids : PastInflightSection(t)
    /\ PayloadLen(dequeued[1]) > 0
    /\ bytes_inflight = PayloadBytes(Segments(inflight_segments_list))

\* C2: in every reachable state bytes_inflight is at most the configured
\* send_window.
C2_WithinSendWindow == bytes_inflight <= config.send_window

C2_Witness ==
    /\ \E t \in Tids : PastInflightSection(t)
    /\ PayloadLen(dequeued[1]) = config.send_window
    /\ bytes_inflight <= config.send_window

\* The scenario of C3: three segments of the largest payload were written
\* under a send window of two such segments, nothing is acknowledged, a
\* sending task was started, and ctcp_read and the task have come to rest.
C3_Scenario ==
    /\ config.send_window = 2 * MAX_SEG_DATA_SIZE
    /\ Len(created) = 3
    /\ \A i \in 1 .. 3 : PayloadLen(created[i]) = MAX_SEG_DATA_SIZE
    /\ last_ack_received = 0
    /\ rpc[1] = "idle"
    /\ is_output_thread_running = 1
    /\ LiveTasks = {}
    /\ ~crashed

\* C3: in that scenario exactly two segments are in flight and the third is
\* held in the outbound queue.
C3_TwoInFlightThirdHeld ==
    C3_Scenario =>
        /\ Len(inflight_segments_list) = 2
        /\ Segments(outbound_segments_list) = <<created[3]>>

\* Segments built by ctcp_read and not yet linked into outbound.
InReadersHands ==
    {timestamped_segment[r].segment :
        r \in {x \in Readers : rpc[x] \in {"r304", "r305", "r339", "r340"}}}

\* Segments an output thread has unlinked from outbound and carries to the
\* section under inflight_list_lock.
InSendersHands ==
    {tail_timestamped_segment[t].segment :
        t \in {x \in Tids : spc[x] \in {"s254", "s257", "s258"}}}

\* C4: every segment ctcp_read enqueued and that is not acknowledged is in
\* exactly one of the outbound queue and the inflight set (or on its way from
\* the one to the other in the sending task's step).
C4_QueuedOrInflight ==
    \A i \in 1 .. Len(created) :
        LET seg == created[i] IN
        (~IsFin(seg) /\ ~Acked(seg) /\ seg \notin InReadersHands
            /\ seg \notin InSendersHands)
        => Count(Segments(outbound_segments_list), seg)
               + Count(Segments(inflight_segments_list), seg) = 1

\* C5: at most one sending task is live for the connection.
C5_OneLiveTask == Cardinality(LiveTasks) <= 1

\* Both callers of ctcp_read are past the fork test of their current call and
\* one task is live: one of them created it, the other found the flag set.
C5_Witness ==
    /\ \A r \in Readers : rpc[r] = "r295" /\ need_to_fork_thread[r] = 0
    /\ Cardinality(LiveTasks) = 1
    /\ is_output_thread_running = 1

\* C6: the running flag does not stay set once the sending task has ended, so
\* that the next ctcp_read starts a new task.
C6_FlagClearedAfterTask ==
    (LiveTasks = {} /\ ~crashed) => is_output_thread_running = 0

\* C7: the outbound queue holds its segments newest at the head and oldest at
\* the tail, and every segment that left it has a seqno no greater than the
\* seqno of any segment that left later or is still queued.
C7_DequeuedInSeqOrder ==
    /\ \A i, j \in 1 .. Len(outbound_segments_list) :
           i < j => SeqNo(outbound_segments_list[i].segment)
                        >= SeqNo(outbound_segments_list[j].segment)
    /\ \A i, j \in 1 .. Len(dequeued) :
           i < j => SeqNo(dequeued[i]) <= SeqNo(dequeued[j])
    /\ \A i \in 1 .. Len(dequeued) :
           \A j \in 1 .. Len(outbound_segments_list) :
               SeqNo(dequeued[i]) <= SeqNo(outbound_segments_list[j].segment)

\* The task has just taken the tail off a queue of three or more segments.
C7_Witness ==
    /\ \E t \in Tids : spc[t] = "s254"
    /\ Len(outbound_segments_list) >= 2
    /\ SeqNo(dequeued[Len(dequeued)]) = INITIAL_SEQ_NO

\* C8: every data segment carries the value next_seq_no had before it was
\* built, ackno last_ack_sent, window recv_window and the ACK flag; the
\* sequence ranges of the segments built are contiguous from INITIAL_SEQ_NO
\* and next_seq_no is INITIAL_SEQ_NO plus the payload bytes built so far.
C8_ContiguousSeqNos ==
    /\ \A i \in 1 .. Len(created) :
           /\ SeqNo(created[i]) =
                  INITIAL_SEQ_NO + PayloadBytes(SubSeq(created, 1, i - 1))
           /\ ~IsFin(created[i]) =>
                  /\ ntohl(created[i].ackno) = last_ack_sent
                  /\ ntohs(created[i].window) = config.recv_window
                  /\ HasFlag(created[i], ACK)
                  /\ PayloadLen(created[i]) = Len(created[i].data)
                  /\ PayloadLen(created[i]) \in 1 .. MAX_SEG_DATA_SIZE
    /\ next_seq_no = INITIAL_SEQ_NO + PayloadBytes(created)

\* Three data segments of unequal payload lengths were built.
C8_Witness ==
    /\ Len(created) >= 3
    /\ \A i \in 1 .. 3 : ~IsFin(created[i])
    /\ PayloadLen(created[1]) # PayloadLen(created[2])
    /\ SeqNo(created[3]) = SeqNo(created[2]) + PayloadLen(created[2])

C10_AtMostOneFin ==
    /\ NumFins(Segments(outbound_segments_list))
           + NumFins(Segments(inflight_segments_list))
           + NumFins(transmitted) <= 1
    /\ \A i \in 1 .. Len(created) - 1 :
           IsFin(created[i]) => IsFin(created[i + 1])

\* ctcp_read has returned, no sending task is live and the process runs.
AtRest == rpc[1] = "idle" /\ LiveTasks = {} /\ ~crashed

\* C11: a FIN that ctcp_read queued is sent: once ctcp_read has returned, the
\* FIN has been handed to conn_send or a sending task is live to send it, also
\* when no data was written before the end of input.
C11_FinIsSent ==
    (rpc[1] = "idle" /\ ~crashed /\ NumFins(created) > 0) =>
        \/ NumFins(transmitted) > 0
        \/ LiveTasks # {}

\* The bytes of the data segments among segs, in order.
RECURSIVE DataBytes(_)
DataBytes(segs) ==
    IF segs = <<>> THEN <<>> ELSE Head(segs).data \o DataBytes(Tail(segs))

\* C14: no byte is lost on the way: when a sending task was started and the
\* connection has come to rest, every byte ctcp_read took from the
\* application has been handed to conn_send, in the order written.
C14_BytesReachTheNetwork ==
    (AtRest /\ is_output_thread_running = 1) =>
        DataBytes(transmitted) = DataBytes(created)

\* C20: whenever send_outbound_tail_segments evaluates the comparison of line
\* 264 the outbound queue is non-empty.
C20_TailReadOnNonEmpty ==
    \A t \in Tids : spc[t] = "s264" => outbound_segments_list # <<>>

\* C12: once valid pure ACKs have arrived, last_ack_received is the highest
\* acknowledgment number among them and no inflight entry that this number
\* covers is left in the inflight list.
C12_AckIsRecorded ==
    rx_ack_max > 0 =>
        /\ last_ack_received = rx_ack_max
        /\ \A i \in 1 .. Len(inflight_segments_list) :
              LET seg == inflight_segments_list[i].segment
              IN  SeqNo(seg) + PayloadLen(seg) > rx_ack_max

\* C13: no step of the connection lowers last_ack_received or last_ack_sent.
C13_AcksNeverDecrease ==
    [][/\ last_ack_received' >= last_ack_received
       /\ last_ack_sent' >= last_ack_sent]_vars

\* An acknowledgment older than one received before it has just arrived.
C13_Witness ==
    /\ rx_last # NoRx
    /\ IsValid(rx_last)
    /\ IsPureAck(rx_last)
    /\ ntohl(rx_last.ackno) < rx_ack_max
    /\ last_ack_received <= rx_ack_max

\* C15: a segment that left the outbound queue and whose retransmission
\* timeout ran out at a timer sweep was handed to conn_send again: once when
\* it was first sent and once more for every timeout.
C15_TimedOutIsResent ==
    (timeouts > 0 /\ timeouts <= MaxRetransmissions) =>
        Count(transmitted, dequeued[1]) >= 1 + timeouts

\* C16: when the timeout of the same segment has run out more often than the
\* segment may be retransmitted, the connection is no longer registered.
C16_GivenUpIsRemoved ==
    timeouts > MaxRetransmissions =>
        /\ 1 \notin allocated
        /\ state_list # 1

\* C17: no output thread of a connection is live once ctcp_destroy has freed
\* the connection's state.
C17_NoTaskOutlivesState == stale_tasks \cap LiveTasks = {}

\* The states met on the way from a state along the next fields, at most
\* fuel of them.
RECURSIVE ListFrom(_, _)
ListFrom(state, fuel) ==
    IF state = NULL \/ fuel = 0 THEN <<>>
    ELSE <<state>> \o ListFrom(next[state], fuel - 1)

RegistryList == ListFrom(state_list, MaxConns + 1)

\* The counters of an allocated state.
CountersOf(state) ==
    IF state = 1
    THEN [next_seq_no |-> next_seq_no, last_ack_sent |-> last_ack_sent,
          last_ack_received |-> last_ack_received,
          bytes_inflight |-> bytes_inflight]
    ELSE counters[state]

\* C18: after any sequence of ctcp_init and ctcp_destroy calls every state has
\* the counters ctcp_init gives it (next_seq_no = INITIAL_SEQ_NO, the others
\* 0), state_list holds exactly the states created and not destroyed, each
\* once, and the prev field of each of them is the link that refers to it.
C18_RegistryIsExact ==
    /\ \A state \in allocated : CountersOf(state) = FreshCounters
    /\ {RegistryList[i] : i \in 1 .. Len(RegistryList)} = allocated
    /\ Len(RegistryList) = Cardinality(allocated)
    /\ \A state \in allocated :
          /\ prev[state] # NoLink
          /\ prev[state] = StateListLink \/ prev[state][2] \in allocated
          /\ link_load(prev[state], state_list, next) = state

\* A state was cut out of the middle of the list and two or more are left.
C18_Witness ==
    /\ destroyed_at = "middle"
    /\ Cardinality(allocated) >= 2
    /\ Len(RegistryList) = Cardinality(allocated)
    /\ \A state \in allocated :
          link_load(prev[state], state_list, next) = state

\* C19: an output thread that has returned or exited does not hold
\* outbound_list_lock.
C19_NoLockLeftBehind ==
    \A t \in Tids :
        spc[t] \in {"returned", "exited"} =>
            outbound_list_lock # OutputThread(t)

====
